---- MODULE Spec2Model ----
(***************************************************************************)
(* Parallel container orchestration of skill-evaluator.                    *)
(*                                                                         *)
(* run_evaluation  (src/src/evaluator.py:161-247) drives one container     *)
(* through create -> start -> wait -> collect -> remove.                   *)
(* run_evaluations (src/src/evaluator.py:250-289) expands the pairs,       *)
(* submits one run per pair to a thread pool and collects the results.     *)
(*                                                                         *)
(* The cooperative shutdown signal, the active-containers registry and the *)
(* kill of active containers on interrupt belong to the runner revision    *)
(* that main.py and the tests import (src.runner); that file is not part   *)
(* of the sources, so these pieces are modelled from spec.md sections 4.4, *)
(* 4.6 and 5 and are marked as such where they are defined.                *)
(***************************************************************************)
EXTENDS Integers, Sequences, FiniteSets, TLC

\* ------------------------------------------------------------------ bounds
MaxSkills == 2
MaxScenarios == 1
MaxPairs == 2
MaxClock == 2
MaxExitCode == 255
MaxTrials == 2
MaxUsage == 2
MaxGiven == 9
MaxMem == 20
MaxLimit == 4
MaxExpected == 2
MaxFindings == 2
MaxRows == 2
MaxHalves == 2

\* ----------------------------------------------------------------- helpers
Max(a, b) == IF a >= b THEN a ELSE b

\* Exit codes container.wait may report.
ExitCodes == {0, 137}

\* Python None for an optional int: <<>> is None, <<n>> is the int n.
None == <<>>
Some(n) == <<n>>

\* <<max_workers, MemTotal>>: the explicit cap (absent, 0, 1, 2) together with
\* a host memory, in units of the per-container limit, for which the capacity
\* planner gives a different number than the cap.
PoolInputs == {<<None, 1>>, <<Some(0), 3>>, <<Some(1), 3>>, <<Some(2), 1>>}

VARIABLES
    skills,            \* number of SkillConfig given (skill i is named i)
    scenarios,         \* number of ScenarioConfig given (0: scenarios = ())
    max_workers,       \* None or Some(n): the explicit cap
    total_mem,         \* client.info()["MemTotal"], in per-container units
    on_result_given,   \* on_result is not None
    shutdown_event,    \* the cooperative shutdown signal
    active_containers, \* the active-containers registry
    now,               \* time.monotonic()
    opc,               \* position of run_evaluations
    pairs,             \* the expanded (skill, scenario) pairs
    workers,           \* ThreadPoolExecutor max_workers
    results,           \* results accumulated by run_evaluations
    on_result_calls,   \* arguments on_result was called with, in order
    collected,         \* futures already yielded by as_completed
    pending,           \* exception propagating out of the pool block
    returned,          \* <<tuple>> once run_evaluations has returned
    interrupts,        \* KeyboardInterrupts delivered so far
    pc,                \* position of each run_evaluation call
    start,             \* the run's start = time.monotonic()
    events,            \* statuses passed to on_status, per run
    ret,               \* <<EvalResult>> once the run has built its result
    exc,               \* the exception the run is raising ("none" if none)
    shutdown_at_begin, \* was the signal set when the run began
    created, started, stopped, killed, removed,
                       \* containers on which create succeeded / start, stop,
                       \* kill, remove(force=True) was called
    create_calls,      \* calls of client.containers.create, per pair
    trials,            \* args.trials of the run command
    trial,             \* the trial the run command is at
    all_results,       \* results of the trials so far
    process_exit,      \* <<code>> once the process has exited
    stop_event,        \* the batch-completion signal of the stats thread
    statuses,          \* statuses[name].state ("absent": no such key)
    progress,          \* completed count of the trial's progress task
    memory_cache,      \* memory_cache[name] ("": no such key)
    memory_peak_cache, \* memory_peak_cache[name] (<<>>: no such key)
    container_cache,   \* names whose container handle _stats_loop holds
    ppc,               \* position of _stats_loop
    todo,              \* what is left of list(statuses.items())
    sample,            \* <<[name, usage, limit]>> read by _poll_memory
    poll_failed,       \* "stats poll failed for ..." was logged
    stats_join,        \* stats_thread.join(timeout=3.0): idle until called
    llm_calls,         \* prompts match_findings_llm has sent, in order
    pre_matches,       \* <<pre_matches>> of match_findings_llm once computed
    llm_answer,        \* <<parsed.matches>> once the model has answered
    fn_args,           \* arguments of a function applied on its own
    fn_out             \* <<value>> once that function has returned

config == <<skills, scenarios, max_workers, total_mem, on_result_given>>
orch == <<opc, pairs, workers, results, on_result_calls, collected, pending,
          returned, interrupts>>
runner == <<pc, start, events, ret, exc, shutdown_at_begin>>
docker == <<created, started, stopped, killed, removed, create_calls>>
fn == <<fn_args, fn_out>>
main == <<trials, trial, all_results, process_exit>>
stats == <<stop_event, memory_cache, memory_peak_cache, container_cache, ppc, todo,
           sample, poll_failed, stats_join>>
poller == <<statuses, progress, stats>>
matcher == <<llm_calls, pre_matches, llm_answer>>
vars == <<config, matcher, fn, main, poller, shutdown_event, active_containers, now, orch, runner, docker>>

\* ------------------------------------------------------------ pure functions

\* run_evaluations, lines 261-265: the pairs, skill-major, scenario-minor;
\* scenario 0 stands for None.
RECURSIVE PairsOfSkill(_, _, _)
PairsOfSkill(s, nScen, c) ==
    IF c > nScen THEN <<>>
    ELSE <<<<s, c>>>> \o PairsOfSkill(s, nScen, c + 1)

RECURSIVE PairsFrom(_, _, _)
PairsFrom(s, nSkills, nScen) ==
    IF s > nSkills THEN <<>>
    ELSE (IF nScen > 0 THEN PairsOfSkill(s, nScen, 1) ELSE <<<<s, 0>>>>)
         \o PairsFrom(s + 1, nSkills, nScen)

\* a zip instead of a product: skill i paired with scenario i only
ExpandPairsZip(nSkills, nScen) ==
    IF nScen > 0
    THEN [i \in 1 .. (IF nSkills <= nScen THEN nSkills ELSE nScen) |-> <<i, i>>]
    ELSE PairsFrom(1, nSkills, nScen)

\* the product taken scenario by scenario: every skill with the first
\* scenario, then every skill with the second
ExpandPairsScenarioMajor(nSkills, nScen) ==
    IF nScen > 0
    THEN [i \in 1 .. nSkills * nScen |->
             <<((i - 1) % nSkills) + 1, ((i - 1) \div nSkills) + 1>>]
    ELSE PairsFrom(1, nSkills, nScen)

ExpandPairs(nSkills, nScen) == PairsFrom(1, nSkills, nScen)

\* lines 270-280: the arguments of the pool.submit calls of the dict
\* comprehension `for skill, scenario in pairs`, in the order of the calls.
Submitted(ps) == [i \in 1 .. Len(ps) |-> [skill |-> ps[i][1], scenario |-> ps[i][2]]]

\* the quotient without the lower clamp
PlannerUnclamped(total, per_container) ==
    (total * 8) \div (per_container * 10)

\* calculate_max_workers: max(1, int(total_mem * 0.8 / per_container)). The
\* product and the quotient are doubles and int() truncates the non-negative
\* quotient; for totals below 2^46 bytes the double quotient has the same
\* integer part as 8 * total / (10 * per_container), which is what is
\* computed here.
calculate_max_workers(total, per_container) ==
    Max(1, (total * 8) \div (per_container * 10))

\* run_evaluations, line 266: max_workers or calculate_max_workers(...).
\* Python's `or` takes the right operand when the left is None or 0.
WorkerCount(cap, total) ==
    IF cap # None /\ cap[1] # 0 THEN cap[1] ELSE calculate_max_workers(total, 1)

\* exit code 137 taken for an OOM kill whatever the OOMKilled flag says
ClassifyBy137(exit_code, oom_killed) ==
    IF exit_code = 0 THEN "null"
    ELSE IF oom_killed \/ exit_code = 137 THEN "oom_killed"
    ELSE "nonzero_exit:" \o ToString(exit_code)

\* _classify_error
NonzeroExit(code) == "nonzero_exit:" \o ToString(code)
classify_error(exit_code, oom_killed) ==
    IF exit_code = 0 THEN "null"
    ELSE IF oom_killed THEN "oom_killed"
    ELSE NonzeroExit(exit_code)

\* _make_status
make_status(label, state, duration, cname) ==
    [skill_name |-> label, state |-> state, duration_seconds |-> duration,
     container_name |-> cname]

\* EvalResult; peak_memory_bytes defaults to 0
EvalResult(label, code, out, err, duration, error) ==
    [skill_name |-> label, exit_code |-> code, stdout |-> out, stderr |-> err,
     duration_seconds |-> duration, error |-> error, peak_memory_bytes |-> 0]

\* line 233: state = "failed" if error else "completed"
ExitState(error) == IF error # "null" THEN "failed" ELSE "completed"

TerminalStates == {"completed", "failed", "timeout", "oom", "interrupted"}

\* ------------------------------------------------------------------- state
Runs == 1 .. Len(ExpandPairs(skills, scenarios))
Label(r) == pairs[r]
InFlight == {r \in Runs : pc[r] \notin {"queued", "done"}}
\* the subtraction the wrong way round
ElapsedBackwards(r) == start[r] - now

\* time.monotonic() - start
Elapsed(r) == now - start[r]

InitBatch ==
    /\ skills \in 1 .. MaxSkills
    /\ scenarios \in 0 .. MaxScenarios
    /\ Len(ExpandPairs(skills, scenarios)) <= MaxPairs
    /\ \E input \in PoolInputs : max_workers = input[1] /\ total_mem = input[2]
    /\ on_result_given \in BOOLEAN
    /\ shutdown_event \in BOOLEAN
    /\ active_containers = {}
    /\ now = 0
    /\ opc = "plan"
    /\ pairs = <<>>
    /\ workers = 0
    /\ results = <<>>
    /\ on_result_calls = <<>>
    /\ collected = {}
    /\ pending = "none"
    /\ returned = <<>>
    /\ interrupts = 0
    /\ pc = [r \in Runs |-> "queued"]
    /\ start = [r \in Runs |-> 0]
    /\ events = [r \in Runs |-> <<>>]
    /\ ret = [r \in Runs |-> <<>>]
    /\ exc = [r \in Runs |-> "none"]
    /\ shutdown_at_begin = [r \in Runs |-> FALSE]
    /\ created = {}
    /\ started = {}
    /\ stopped = {}
    /\ killed = {}
    /\ removed = {}
    /\ create_calls = [r \in Runs |-> 0]

\* The run command about to run its only trial.
OneTrial ==
    /\ trials = 1
    /\ trial = 1
    /\ all_results = <<>>
    /\ process_exit = <<>>

\* container.name of the container of run r is r: the runtime gives every
\* container a name of its own.
ContainerNames == 1 .. MaxPairs

\* container names, in the order in which the runtime assigns them
Names == {1, 2}

\* main.py lines 238-241, 268, 56: empty maps, the signal clear, _stats_loop
\* before its first wait.
InitPoller ==
    /\ stop_event = FALSE
    /\ statuses = [n \in ContainerNames |-> "absent"]
    /\ progress = 0
    /\ memory_cache = [n \in ContainerNames |-> ""]
    /\ memory_peak_cache = [n \in ContainerNames |-> <<>>]
    /\ container_cache = {}
    /\ ppc = "sleep"
    /\ todo = <<>>
    /\ sample = <<>>
    /\ poll_failed = FALSE
    /\ stats_join = "idle"

\* match_findings_llm not called
InitMatcher == llm_calls = <<>> /\ pre_matches = <<>> /\ llm_answer = <<>>

Init ==
    InitBatch /\ OneTrial /\ InitPoller /\ InitMatcher /\ fn_args = <<>> /\ fn_out = <<>>

\* No batch under way: the state in which a function is applied on its own.
Idle ==
    /\ InitBatch
    /\ OneTrial
    /\ InitPoller
    /\ InitMatcher
    /\ skills = 1
    /\ scenarios = 0
    /\ max_workers = None
    /\ ~on_result_given
    /\ ~shutdown_event

\* ------------------------------------------------------ time.monotonic()
Tick ==
    /\ now < MaxClock
    /\ now' = now + 1
    /\ UNCHANGED <<config, matcher, fn, main, poller, shutdown_event, active_containers, orch, runner, docker>>


\* ---------------------------------------------- pieces modelled from spec.md
\* the runner never looks at the signal
ShutdownIgnored == FALSE

\* 4.4 step 1: the runner reads the shutdown signal before start.
ShutdownObserved == shutdown_event

\* 4.6: a pair that short-circuits yields error = interrupted, exit_code = -1.
InterruptedResult(r) ==
    EvalResult(Label(r), -1, "", "", Elapsed(r), "interrupted")

\* 4.4 steps 3 and 8: register in / unregister from the active-containers set.
Register(r) == active_containers \cup {r}

\* the runner leaves the container in the registry
UnregisterNever(r) == active_containers

Unregister(r) == active_containers \ {r}

\* 4.6 Cancellation: on interrupt the signal is set and every container in the
\* registry is asked to terminate.
SignalAfterInterrupt == TRUE

\* the interrupt path forgets the registry
KillNothing == {}

KillTargets == active_containers

\* ------------------------------------------------- run_evaluation, one run
\* a pool that starts a thread per submitted run
WorkerFreeAlways == TRUE

\* ThreadPoolExecutor(max_workers=workers): a run begins only on a free worker.
WorkerFree == Cardinality(InFlight) < workers

Emit(r, state, duration) ==
    Append(events[r], make_status(Label(r), state, duration, r))

\* the status is stored under the key of the first container
on_status_one_key(r, state) == [statuses EXCEPT ![1] = state]

\* main.py line 293: statuses[status.container_name] = status
on_status(r, state) == [statuses EXCEPT ![r] = state]

\* main.py line 231
_TERMINAL == {"completed", "failed", "timeout", "oom"}

\* main.py lines 294-295: if status.state in _TERMINAL: progress.advance(task_id)
advance(state) == IF state \in _TERMINAL THEN progress + 1 ELSE progress

\* line 235: (memory_peak_cache or {}).get(cname, 0)
peak_read(cname) ==
    IF memory_peak_cache[cname] = <<>> THEN 0 ELSE memory_peak_cache[cname][1]

\* remove at the end of the try body instead of in a finally block
RemoveOnReturnOnly(r) == IF exc[r] = "none" THEN removed \cup {r} ELSE removed

\* remove only what was started
RemoveIfStarted(r) == IF r \in started THEN removed \cup {r} ELSE removed

\* the finally block: container.remove(force=True) on every path
RemoveForce(r) == removed \cup {r}

\* an error of remove replaces the exception the run was raising
RemoveErrorPropagates(e, raised) == IF raised THEN "remove" ELSE e

\* with suppress(Exception): an error of remove does not replace the outcome
AfterRemove(e, raised) == e

\* an error of stop becomes the run's outcome
StopErrorPropagates(e, raised) == IF raised THEN "stop" ELSE e

\* lines 212-213: with suppress(Exception): container.stop()
AfterStop(e, raised) == e

\* lines 170-199: a worker takes the next queued pair; start = monotonic();
\* client.containers.create(...) returns a container or raises.
RunCreate(r) ==
    /\ opc # "plan"
    /\ pc[r] = "queued"
    /\ \A q \in Runs : q < r => pc[q] # "queued"
    /\ WorkerFree
    /\ start' = [start EXCEPT ![r] = now]
    /\ shutdown_at_begin' = [shutdown_at_begin EXCEPT ![r] = shutdown_event]
    /\ create_calls' = [create_calls EXCEPT ![r] = @ + 1]
    /\ \/ /\ created' = created \cup {r}
          /\ pc' = [pc EXCEPT ![r] = "created"]
          /\ exc' = exc
       \/ /\ created' = created
          /\ pc' = [pc EXCEPT ![r] = "done"]
          /\ exc' = [exc EXCEPT ![r] = "create"]
    /\ UNCHANGED <<config, matcher, fn, main, poller, shutdown_event, active_containers, now, orch, events, ret,
                   started, stopped, killed, removed>>

\* lines 200-202 with the shutdown check and the registration of spec 4.4:
\* a set signal short-circuits to an interrupted result; otherwise `starting`
\* is emitted with duration 0.0 and the container is registered.
RunCheck(r) ==
    /\ pc[r] = "created"
    /\ IF ShutdownObserved
       THEN /\ events' = [events EXCEPT ![r] = Emit(r, "interrupted", Elapsed(r))]
            /\ statuses' = on_status(r, "interrupted")
            /\ progress' = advance("interrupted")
            /\ ret' = [ret EXCEPT ![r] = <<InterruptedResult(r)>>]
            /\ pc' = [pc EXCEPT ![r] = "finally"]
            /\ UNCHANGED active_containers
       ELSE /\ events' = [events EXCEPT ![r] = Emit(r, "starting", 0)]
            /\ statuses' = on_status(r, "starting")
            /\ progress' = advance("starting")
            /\ active_containers' = Register(r)
            /\ pc' = [pc EXCEPT ![r] = "start"]
            /\ UNCHANGED ret
    /\ UNCHANGED <<config, matcher, fn, main, stats, shutdown_event, now, orch, start, exc,
                   shutdown_at_begin, docker>>

\* lines 203-208: container.start(), then `running`.
RunStart(r) ==
    /\ pc[r] = "start"
    /\ started' = started \cup {r}
    /\ \/ /\ events' = [events EXCEPT ![r] = Emit(r, "running", Elapsed(r))]
          /\ statuses' = on_status(r, "running")
          /\ progress' = advance("running")
          /\ pc' = [pc EXCEPT ![r] = "wait"]
          /\ exc' = exc
       \/ /\ exc' = [exc EXCEPT ![r] = "start"]
          /\ pc' = [pc EXCEPT ![r] = "finally"]
          /\ events' = events
          /\ statuses' = statuses
          /\ progress' = progress
    /\ UNCHANGED <<config, matcher, fn, main, stats, shutdown_event, active_containers, now, orch, start, ret,
                   shutdown_at_begin, created, stopped, killed, removed, create_calls>>

\* lines 209-223: container.wait raises ReadTimeout; stop (errors suppressed),
\* `timeout`, and the timeout result.
RunWaitTimeout(r) ==
    /\ pc[r] = "wait"
    /\ stopped' = stopped \cup {r}
    /\ events' = [events EXCEPT ![r] = Emit(r, "timeout", Elapsed(r))]
    /\ statuses' = on_status(r, "timeout")
    /\ progress' = advance("timeout")
    /\ ret' = [ret EXCEPT ![r] =
                 <<EvalResult(Label(r), -1, "", "", Elapsed(r), "timeout")>>]
    /\ \E raised \in BOOLEAN : exc' = [exc EXCEPT ![r] = AfterStop(exc[r], raised)]
    /\ pc' = [pc EXCEPT ![r] = "finally"]
    /\ UNCHANGED <<config, matcher, fn, main, stats, shutdown_event, active_containers, now, orch, start,
                   shutdown_at_begin, created, started, killed, removed, create_calls>>

\* lines 224-244: wait returned a status code; reload, OOMKilled, logs,
\* classification, terminal status and result.
RunWaitExit(r) ==
    /\ pc[r] = "wait"
    /\ \E exit_code \in ExitCodes, oom_killed \in BOOLEAN :
         LET error == classify_error(exit_code, oom_killed)
             state == ExitState(error)
             peak == peak_read(r)
         IN /\ events' = [events EXCEPT ![r] = Emit(r, state, Elapsed(r))]
            /\ statuses' = on_status(r, state)
            /\ progress' = advance(state)
            /\ ret' = [ret EXCEPT ![r] =
                         <<[EvalResult(Label(r), exit_code, "out", "err",
                                       Elapsed(r), error)
                               EXCEPT !.peak_memory_bytes = peak]>>]
    /\ pc' = [pc EXCEPT ![r] = "finally"]
    /\ UNCHANGED <<config, matcher, fn, main, stats, shutdown_event, active_containers, now, orch, start, exc,
                   shutdown_at_begin, docker>>

\* lines 210, 225, 229-230: wait raises something other than ReadTimeout, or
\* the collection after it (reload, logs) raises.
RunWaitRaises(r) ==
    /\ pc[r] = "wait"
    /\ \E what \in {"wait", "collect"} : exc' = [exc EXCEPT ![r] = what]
    /\ pc' = [pc EXCEPT ![r] = "finally"]
    /\ UNCHANGED <<config, matcher, fn, main, poller, shutdown_event, active_containers, now, orch, start, events,
                   ret, shutdown_at_begin, docker>>

\* lines 245-247: the finally block; the run then returns its result or lets
\* its exception propagate into the future.
RunFinally(r) ==
    /\ pc[r] = "finally"
    /\ active_containers' = Unregister(r)
    /\ removed' = RemoveForce(r)
    /\ \E raised \in BOOLEAN : exc' = [exc EXCEPT ![r] = AfterRemove(exc[r], raised)]
    /\ pc' = [pc EXCEPT ![r] = "done"]
    /\ UNCHANGED <<config, matcher, fn, main, poller, shutdown_event, now, orch, start, events, ret,
                   shutdown_at_begin, created, started, stopped, killed, create_calls>>

\* ------------------------------------------------------- run_evaluations
\* lines 261-281: expand the pairs, size the pool, submit every pair.
OrchPlan ==
    /\ opc = "plan"
    /\ pairs' = ExpandPairs(skills, scenarios)
    /\ workers' = WorkerCount(max_workers, total_mem)
    /\ opc' = "loop"
    /\ UNCHANGED <<config, matcher, fn, main, poller, shutdown_event, active_containers, now, results,
                   on_result_calls, collected, pending, returned, interrupts,
                   runner, docker>>

\* on_result called for successful results only
NotifySuccessOnly(calls, result) ==
    IF on_result_given /\ result.error = "null" THEN Append(calls, result) ELSE calls

\* on_result calls recorded newest first
NotifyNewestFirst(calls, result) ==
    IF on_result_given THEN <<result>> \o calls ELSE calls

\* lines 285-286: if on_result is not None: on_result(result)
NotifyResult(calls, result) ==
    IF on_result_given THEN Append(calls, result) ELSE calls

\* a result that carries an error is raised instead of returned
FutureRaisesOnError(r) ==
    exc[r] # "none" \/ (ret[r] # <<>> /\ ret[r][1].error # "null")

\* line 283: future.result() re-raises what the run raised, if it raised
FutureRaises(r) == exc[r] # "none"

\* lines 282-286: as_completed yields a finished future; future.result()
\* returns the EvalResult or re-raises the run's exception.
OrchCollect(r) ==
    /\ opc = "loop"
    /\ pc[r] = "done"
    /\ r \notin collected
    /\ collected' = collected \cup {r}
    /\ IF FutureRaises(r)
       THEN /\ pending' = "exc"
            /\ opc' = "exit"
            /\ UNCHANGED <<results, on_result_calls>>
       ELSE /\ results' = Append(results, ret[r][1])
            /\ on_result_calls' = NotifyResult(on_result_calls, ret[r][1])
            /\ UNCHANGED <<pending, opc>>
    /\ UNCHANGED <<config, matcher, fn, main, poller, shutdown_event, active_containers, now, pairs, workers,
                   returned, interrupts, runner, docker>>

\* line 282: as_completed is exhausted; the with block is left.
OrchLoopEnd ==
    /\ opc = "loop"
    /\ collected = Runs
    /\ opc' = "exit"
    /\ UNCHANGED <<config, matcher, fn, main, poller, shutdown_event, active_containers, now, pairs, workers,
                   results, on_result_calls, collected, pending, returned, interrupts,
                   runner, docker>>

\* no except clause: a pending KeyboardInterrupt propagates too
PropagatesAll(p) == p # "none"

\* line 287: only KeyboardInterrupt is caught; anything else propagates
Propagates(p) == p = "exc"

\* lines 269, 287-289: ThreadPoolExecutor.__exit__ waits for every submitted
\* run; then a pending KeyboardInterrupt is swallowed and the results are
\* returned, while any other pending exception propagates.
OrchExit ==
    /\ opc = "exit"
    /\ \A r \in Runs : pc[r] = "done"
    /\ IF Propagates(pending)
       THEN /\ opc' = "raised"
            /\ UNCHANGED returned
       ELSE /\ opc' = "returned"
            /\ returned' = <<results>>
    /\ UNCHANGED <<config, matcher, fn, main, poller, shutdown_event, active_containers, now, pairs, workers,
                   results, on_result_calls, collected, pending, interrupts,
                   runner, docker>>

\* a KeyboardInterrupt during the pool's __exit__ leaves the pending exception
ExitInterruptedKeepsPending(p) == p

\* line 269, 287: the KeyboardInterrupt raised out of the pool's __exit__ takes
\* the place of whatever exception was leaving the with block
ExitInterrupted(p) == "kbd"

\* lines 268-289: a KeyboardInterrupt reaches the main thread inside the try
\* block.  In the loop it leaves the loop for the pool's __exit__; in __exit__
\* it ends the wait and is swallowed by `except KeyboardInterrupt: pass`.
\* Per spec 4.6 the signal is set and the registered containers are killed.
OrchInterrupt ==
    /\ opc \in {"loop", "exit"}
    /\ interrupts' = interrupts + 1
    /\ shutdown_event' = (shutdown_event \/ SignalAfterInterrupt)
    /\ killed' = killed \cup KillTargets
    /\ IF opc = "loop"
       THEN /\ opc' = "exit"
            /\ pending' = "kbd"
            /\ UNCHANGED returned
       ELSE /\ pending' = ExitInterrupted(pending)
            /\ IF Propagates(pending')
               THEN opc' = "raised" /\ UNCHANGED returned
               ELSE opc' = "returned" /\ returned' = <<results>>
    /\ UNCHANGED <<config, matcher, fn, main, poller, active_containers, now, pairs, workers, results,
                   on_result_calls, collected, runner, created, started, stopped,
                   removed, create_calls>>

Next ==
    \/ OrchPlan
    \/ \E r \in Runs : OrchCollect(r)
    \/ OrchLoopEnd
    \/ OrchExit
    \/ OrchInterrupt
    \/ \E r \in Runs : RunCreate(r)
    \/ \E r \in Runs : RunCheck(r)
    \/ \E r \in Runs : RunStart(r)
    \/ \E r \in Runs : RunWaitTimeout(r)
    \/ \E r \in Runs : RunWaitExit(r)
    \/ \E r \in Runs : RunWaitRaises(r)
    \/ \E r \in Runs : RunFinally(r)

Spec == Init /\ [][Next]_vars

\* Scheduling: the main thread keeps running, and some worker thread that can
\* take a step takes one (every container operation returns: the wait is
\* bounded by timeout_seconds).
OrchStep ==
    OrchPlan \/ (\E r \in Runs : OrchCollect(r)) \/ OrchLoopEnd \/ OrchExit
RunStep ==
    \E r \in Runs :
        \/ RunCreate(r) \/ RunCheck(r) \/ RunStart(r) \/ RunWaitTimeout(r)
        \/ RunWaitExit(r) \/ RunWaitRaises(r) \/ RunFinally(r)
Fairness == WF_vars(OrchStep) /\ WF_vars(RunStep)

\* A batch on a pool of two workers with a per-result callback.
InitLive == Init /\ max_workers = Some(2) /\ on_result_given
SpecLive == InitLive /\ [][Next]_vars /\ Fairness

\* One run observed with the clock running: the same program with a single
\* pair, time.monotonic() advancing between the steps.
InitRun == Init /\ skills = 1 /\ scenarios = 0
NextRun == Next \/ Tick
SpecRun == InitRun /\ [][NextRun]_vars

\* ------------------------------------------------- main.py, _run_command
\* line 334: 0 if all(r.error is None for r in all_results) else 1
ExitCodeOf(rs) == IF \A i \in 1 .. Len(rs) : rs[i].error = "null" THEN 0 ELSE 1

\* lines 234-321: run_skills has returned; the trial's results are appended to
\* all_results and the next trial, if any, runs a new batch.
MainTrialEnd ==
    /\ opc = "returned"
    /\ trial <= trials
    /\ all_results' = all_results \o returned[1]
    /\ trial' = trial + 1
    /\ IF trial < trials
       THEN /\ shutdown_event' = FALSE
            /\ active_containers' = {}
            /\ opc' = "plan"
            /\ pairs' = <<>>
            /\ workers' = 0
            /\ results' = <<>>
            /\ on_result_calls' = <<>>
            /\ collected' = {}
            /\ pending' = "none"
            /\ returned' = <<>>
            /\ interrupts' = 0
            /\ pc' = [r \in Runs |-> "queued"]
            /\ start' = [r \in Runs |-> 0]
            /\ events' = [r \in Runs |-> <<>>]
            /\ ret' = [r \in Runs |-> <<>>]
            /\ exc' = [r \in Runs |-> "none"]
            /\ shutdown_at_begin' = [r \in Runs |-> FALSE]
            /\ created' = {}
            /\ started' = {}
            /\ stopped' = {}
            /\ killed' = {}
            /\ removed' = {}
            /\ create_calls' = [r \in Runs |-> 0]
            /\ statuses' = [n \in ContainerNames |-> "absent"]
            /\ progress' = 0
            /\ memory_cache' = [n \in ContainerNames |-> ""]
            /\ memory_peak_cache' = [n \in ContainerNames |-> <<>>]
       ELSE UNCHANGED <<shutdown_event, active_containers, orch, runner, docker,
                        statuses, progress, memory_cache, memory_peak_cache>>
    /\ UNCHANGED <<config, matcher, fn, stop_event, container_cache, ppc, todo, sample,
                   poll_failed, stats_join, trials, process_exit, now>>

\* line 334: sys.exit(0 if all(r.error is None for r in all_results) else 1)
MainExit ==
    /\ trial > trials
    /\ process_exit = <<>>
    /\ process_exit' = <<ExitCodeOf(all_results)>>
    /\ UNCHANGED <<config, matcher, fn, poller, trials, trial, all_results, shutdown_event,
                   active_containers, now, orch, runner, docker>>

\* line 305: run_skills raised; the exception is not caught and the
\* interpreter exits with status 1.
MainRaise ==
    /\ opc = "raised"
    /\ process_exit = <<>>
    /\ process_exit' = <<1>>
    /\ UNCHANGED <<config, matcher, fn, poller, trials, trial, all_results, shutdown_event,
                   active_containers, now, orch, runner, docker>>

\* The run command over one skill and no scenario, for 1 .. MaxTrials trials.
InitMain ==
    /\ InitBatch
    /\ skills = 1
    /\ scenarios = 0
    /\ ~shutdown_event
    /\ trials \in 1 .. MaxTrials
    /\ InitPoller
    /\ InitMatcher
    /\ trial = 1
    /\ all_results = <<>>
    /\ process_exit = <<>>
    /\ fn_args = <<>>
    /\ fn_out = <<>>

NextMain == Next \/ MainTrialEnd \/ MainExit \/ MainRaise
SpecMain == InitMain /\ [][NextMain]_vars

\* ---------------------------------------------------- main.py, _stats_loop
MIB == 1024 * 1024
GIB == 1024 * 1024 * 1024

\* display.py _fmt_bytes: f"{n / _GIB:.1f}G" from 1 GiB on, else f"{n // _MIB}M"
fmt_bytes(n) ==
    IF n >= GIB
    THEN LET tenths == (((n % GIB) \div 1024) * 10 + 512 * 1024) \div MIB
         IN ToString((n \div GIB) + (tenths \div 10)) \o "." \o
            ToString(tenths % 10) \o "G"
    ELSE ToString(n \div MIB) \o "M"

\* display.py format_memory
format_memory(usage, limit) == fmt_bytes(usage) \o " / " \o fmt_bytes(limit)

RunningStates == {"starting", "running"}

\* memory_stats.limit of a container: 0 when the runtime reports none, else
\* the mem_limit every container of the batch is created with.
MemLimit == 4 * MIB

\* list(statuses.items()), from name n on: the keys present with the state
\* each has at this moment.
RECURSIVE ItemsFrom(_)
ItemsFrom(n) ==
    IF n \notin ContainerNames THEN <<>>
    ELSE (IF statuses[n] = "absent" THEN <<>> ELSE <<<<n, statuses[n]>>>>)
         \o ItemsFrom(n + 1)

\* the peak is overwritten by the latest usage
PeakLatest(prior, usage) == usage

\* line 68: max(memory_peak_cache.get(name, 0), usage)
PeakOf(prior, usage) == Max(IF prior = <<>> THEN 0 ELSE prior[1], usage)

\* line 59: s.state in _RUNNING
Sampled(state) == state \in RunningStates

\* an error of the stats poll ends the loop
PollErrorEndsLoop == "exited"

\* lines 70-71: except Exception: log, and go on with the next item
AfterPollError == "scan"

\* main.py lines 290-293, as the runner calls it: the status of a container
\* goes from starting to running to a terminal state.
OnStatus(n) ==
    /\ \/ /\ statuses[n] = "absent"
          /\ \A m \in Names : m < n => statuses[m] # "absent"
          /\ statuses' = [statuses EXCEPT ![n] = "starting"]
          /\ progress' = advance("starting")
       \/ /\ statuses[n] = "starting"
          /\ statuses' = [statuses EXCEPT ![n] = "running"]
          /\ progress' = advance("running")
       \/ /\ statuses[n] \in RunningStates
          /\ \E s \in {"completed", "failed"} :
                 /\ statuses' = [statuses EXCEPT ![n] = s]
                 /\ progress' = advance(s)
    /\ UNCHANGED <<config, matcher, fn, main, stop_event, memory_cache, memory_peak_cache,
                   container_cache, ppc, todo, sample, poll_failed, stats_join,
                   shutdown_event,
                   active_containers, now, orch, runner, docker>>

\* main.py lines 315-317: run_skills has returned; stop_event.set(), then
\* stats_thread.join(timeout=3.0) is called.
SetStop ==
    /\ ~stop_event
    /\ stop_event' = TRUE
    /\ stats_join' = "joining"
    /\ UNCHANGED <<config, matcher, fn, main, statuses, progress, memory_cache, memory_peak_cache,
                   container_cache, ppc, todo, sample, poll_failed, shutdown_event,
                   active_containers, now, orch, runner, docker>>

\* line 57: stop_event.wait(2.0) returns; the loop ends when the signal is set,
\* else line 58 takes list(statuses.items()).
PollWake ==
    /\ ppc = "sleep"
    /\ IF stop_event
       THEN ppc' = "exited" /\ UNCHANGED todo
       ELSE ppc' = "scan" /\ todo' = ItemsFrom(1)
    /\ UNCHANGED <<config, matcher, fn, main, stop_event, statuses, progress, memory_cache,
                   memory_peak_cache, container_cache, sample, poll_failed, stats_join,
                   shutdown_event,
                   active_containers, now, orch, runner, docker>>

\* lines 59-61: an item that is not starting or running: drop its handle.
PollSkip ==
    /\ ppc = "scan"
    /\ todo # <<>>
    /\ ~Sampled(Head(todo)[2])
    /\ container_cache' = container_cache \ {Head(todo)[1]}
    /\ todo' = Tail(todo)
    /\ UNCHANGED <<config, matcher, fn, main, stop_event, statuses, progress, memory_cache,
                   memory_peak_cache, ppc, sample, poll_failed, stats_join,
                   shutdown_event,
                   active_containers, now, orch, runner, docker>>

\* lines 63-65: look the container up unless its handle is cached, and read
\* one stats sample (usage and limit default to 0), in whole MiB here, the
\* usage one of usages and the limit one of limits.
PollSample(usages, limits) ==
    /\ ppc = "scan"
    /\ todo # <<>>
    /\ Sampled(Head(todo)[2])
    /\ container_cache' = container_cache \cup {Head(todo)[1]}
    /\ \E u \in usages, limit \in limits :
           sample' = <<[name |-> Head(todo)[1], usage |-> u * MIB, limit |-> limit]>>
    /\ ppc' = "store"
    /\ UNCHANGED <<config, matcher, fn, main, stop_event, statuses, progress, memory_cache,
                   memory_peak_cache, todo, poll_failed, stats_join,
                   shutdown_event,
                   active_containers, now, orch, runner, docker>>

PollRead == PollSample(0 .. MaxUsage, {0, MemLimit})

\* lines 66-69: if limit: store the formatted string and the peak.
PollStore ==
    /\ ppc = "store"
    /\ LET name == sample[1].name
           usage == sample[1].usage
           limit == sample[1].limit
       IN IF limit # 0
          THEN /\ memory_cache' =
                      [memory_cache EXCEPT ![name] = format_memory(usage, limit)]
               /\ memory_peak_cache' =
                      [memory_peak_cache EXCEPT
                          ![name] = <<PeakOf(memory_peak_cache[name], usage)>>]
          ELSE UNCHANGED <<memory_cache, memory_peak_cache>>
    /\ todo' = Tail(todo)
    /\ sample' = <<>>
    /\ ppc' = "scan"
    /\ UNCHANGED <<config, matcher, fn, main, stop_event, statuses, progress, container_cache,
                   poll_failed, stats_join,
                   shutdown_event, active_containers, now, orch, runner, docker>>

\* lines 64-65, 70-71: client.containers.get raises (the handle is not
\* cached), or _poll_memory raises (the handle is cached by then); the error
\* is logged.
PollFails ==
    /\ ppc = "scan"
    /\ todo # <<>>
    /\ Sampled(Head(todo)[2])
    /\ \/ Head(todo)[1] \notin container_cache /\ UNCHANGED container_cache
       \/ container_cache' = container_cache \cup {Head(todo)[1]}
    /\ poll_failed' = TRUE
    /\ ppc' = AfterPollError
    /\ todo' = Tail(todo)
    /\ UNCHANGED <<config, matcher, fn, main, stop_event, statuses, progress, memory_cache,
                   memory_peak_cache, sample, stats_join, shutdown_event,
                   active_containers, now, orch, runner, docker>>

\* line 58: the for loop is exhausted; back to line 57.
PollCycleEnd ==
    /\ ppc = "scan"
    /\ todo = <<>>
    /\ ppc' = "sleep"
    /\ UNCHANGED <<config, matcher, fn, main, stop_event, statuses, progress, memory_cache,
                   memory_peak_cache, container_cache, todo, sample, poll_failed, stats_join,
                   shutdown_event,
                   active_containers, now, orch, runner, docker>>

\* line 317: the join gives up after 3.0 seconds; a cycle of _stats_loop that
\* still has a container to look up and read stats from is not bounded in time.
JoinCanTimeOut ==
    /\ ppc \in {"scan", "store"}
    /\ \E i \in 1 .. Len(todo) : Sampled(todo[i][2])

\* line 317: stats_thread.join(timeout=3.0) returns, because _stats_loop has
\* returned or because the timeout has passed.
StatsJoin ==
    /\ stats_join = "joining"
    /\ \/ ppc = "exited" /\ stats_join' = "joined"
       \/ JoinCanTimeOut /\ stats_join' = "timed_out"
    /\ UNCHANGED <<config, matcher, fn, main, stop_event, statuses, progress, memory_cache,
                   memory_peak_cache, container_cache, ppc, todo, sample,
                   poll_failed, shutdown_event, active_containers, now, orch,
                   runner, docker>>

InitPoll == Idle /\ fn_args = <<>> /\ fn_out = <<>>

NextPoll ==
    \/ \E n \in Names : OnStatus(n)
    \/ SetStop
    \/ PollWake
    \/ PollSkip
    \/ PollRead
    \/ PollStore
    \/ PollFails
    \/ PollCycleEnd
    \/ StatsJoin

SpecPoll == InitPoll /\ [][NextPoll]_vars

\* -------------------------------------- a batch with its stats thread
\* main.py lines 277-317: _stats_loop runs while run_skills runs two pairs on
\* two workers; stop_event is set once run_skills has returned.
InitTele ==
    /\ Init
    /\ skills = 2
    /\ scenarios = 0
    /\ max_workers = Some(2)
    /\ ~on_result_given
    /\ ~shutdown_event

BatchReturned == opc = "returned" /\ SetStop

\* every container of the batch uses 1 MiB whenever it is sampled
TeleRead == PollSample({1}, {0, MemLimit})

NextTele ==
    \/ OrchPlan
    \/ \E r \in Runs : OrchCollect(r)
    \/ OrchLoopEnd
    \/ OrchExit
    \/ \E r \in Runs : RunCreate(r)
    \/ \E r \in Runs : RunCheck(r)
    \/ \E r \in Runs : RunStart(r)
    \/ \E r \in Runs : RunWaitTimeout(r)
    \/ \E r \in Runs : RunWaitExit(r)
    \/ \E r \in Runs : RunWaitRaises(r)
    \/ \E r \in Runs : RunFinally(r)
    \/ BatchReturned
    \/ PollWake
    \/ PollSkip
    \/ TeleRead
    \/ PollStore
    \/ PollCycleEnd

SpecTele == InitTele /\ [][NextTele]_vars

\* ----------------------------------------- the exit path of one run, alone
\* lines 224-244 for every status code and OOMKilled flag the runtime can
\* report: classification, terminal state and the result built from them.
InitClassify ==
    /\ Idle
    /\ fn_args \in [exit_code : 0 .. MaxExitCode, oom_killed : BOOLEAN]
    /\ fn_out = <<>>

ClassifyExit ==
    /\ fn_out = <<>>
    /\ LET error == classify_error(fn_args.exit_code, fn_args.oom_killed)
       IN fn_out' = <<[state |-> ExitState(error),
                       result |-> EvalResult("label", fn_args.exit_code, "out",
                                             "err", 0, error)]>>
    /\ UNCHANGED <<config, matcher, fn_args, main, poller, shutdown_event, active_containers, now, orch,
                   runner, docker>>

SpecClassify == InitClassify /\ [][ClassifyExit]_vars

\* --------------------------------------- the expansion of the pairs, alone
\* lines 261-280 for 0 .. MaxGiven skills and 0 .. MaxGiven scenarios: the
\* pairs and the runs submitted for them.
InitPairs ==
    /\ Idle
    /\ fn_args \in [skills : 0 .. MaxGiven, scenarios : 0 .. MaxGiven]
    /\ fn_out = <<>>

PlanPairs ==
    /\ fn_out = <<>>
    /\ LET ps == ExpandPairs(fn_args.skills, fn_args.scenarios)
       IN fn_out' = <<[pairs |-> ps, submitted |-> Submitted(ps)]>>
    /\ UNCHANGED <<config, matcher, fn_args, main, poller, shutdown_event, active_containers, now, orch,
                   runner, docker>>

SpecPairs == InitPairs /\ [][PlanPairs]_vars

\* ------------------------------------------------ evaluate.py, the scorer
\* A float that is the quotient of two integers: <<numerator, denominator>>,
\* denominator > 0. The products, sums and quotients of score_scenario are
\* taken exactly; the code's doubles are these values rounded.
Frac(n, d) == <<n, d>>
FracAdd(a, b) == <<a[1] * b[2] + b[1] * a[2], a[2] * b[2]>>
FracMul(a, b) == <<a[1] * b[1], a[2] * b[2]>>
FracDiv(a, b) == <<a[1] * b[2], a[2] * b[1]>>
FracEq(a, b) == a[1] * b[2] = b[1] * a[2]
FracLeq(a, b) == a[1] * b[2] <= b[1] * a[2]

\* expected_findings[idx]: Python indexes from 0, and from the end for a
\* negative idx; anything else raises IndexError.
IndexInRange(expected, idx) == idx < Len(expected) /\ idx >= -Len(expected)
ItemAt(expected, idx) ==
    expected[(IF idx < 0 THEN Len(expected) + idx ELSE idx) + 1]

\* line 130: matched_gt_indices = {m for m in matches if m is not None}
matched_gt_indices(matches) ==
    {matches[i][1] : i \in {k \in 1 .. Len(matches) : matches[k] # None}}

\* only the matched entries count, without the consolidation credit
ExpandedMatchedOnly(expected, matches) == matched_gt_indices(matches)

\* lines 131-133: expanded = the matched indices and the consolidated_with of
\* every matched entry
Expanded(expected, matches) ==
    matched_gt_indices(matches) \cup
        UNION {ItemAt(expected, idx).consolidated_with :
                   idx \in matched_gt_indices(matches)}

\* line 135: fp = sum(1 for m in matches if m is None)
false_positives(matches) ==
    Cardinality({i \in 1 .. Len(matches) : matches[i] = None})

\* line 136: fn = len(ground_truth.expected_findings) - tp
false_negatives(expected, tp) == Len(expected) - tp

\* precision taken as 0.0 when there is nothing to divide by
PrecisionZeroWhenEmpty(tp, fp) == IF tp + fp > 0 THEN Frac(tp, tp + fp) ELSE Frac(0, 1)

\* line 137: precision = tp / (tp + fp) if (tp + fp) > 0 else 1.0
precision_of(tp, fp) == IF tp + fp > 0 THEN Frac(tp, tp + fp) ELSE Frac(1, 1)

\* line 138: recall = tp / (tp + fn) if (tp + fn) > 0 else 1.0
recall_of(tp, fneg) == IF tp + fneg > 0 THEN Frac(tp, tp + fneg) ELSE Frac(1, 1)

\* lines 139-144: beta_sq = 0.25; (1 + beta_sq) * precision * recall /
\* (beta_sq * precision + recall) if (precision + recall) > 0 else 0.0
f05_of(precision, recall) ==
    LET beta_sq == Frac(1, 4)
    IN IF FracAdd(precision, recall)[1] > 0
       THEN FracDiv(FracMul(FracMul(FracAdd(Frac(1, 1), beta_sq), precision), recall),
                    FracAdd(FracMul(beta_sq, precision), recall))
       ELSE Frac(0, 1)

\* line 145: tuple(f for f, m in zip(findings, matches) if m is None)
RECURSIVE unmatched_of(_, _)
unmatched_of(findings, matches) ==
    IF findings = <<>> \/ matches = <<>> THEN <<>>
    ELSE (IF Head(matches) = None THEN <<Head(findings)>> ELSE <<>>)
         \o unmatched_of(Tail(findings), Tail(matches))

\* score_scenario, lines 121-160
score_scenario(findings, expected, matches) ==
    IF \E idx \in matched_gt_indices(matches) : ~IndexInRange(expected, idx)
    THEN [raised |-> "IndexError"]
    ELSE LET tp == Cardinality(Expanded(expected, matches))
             fp == false_positives(matches)
             fneg == false_negatives(expected, tp)
             precision == precision_of(tp, fp)
             recall == recall_of(tp, fneg)
         IN [raised |-> "none",
             true_positives |-> tp,
             false_positives |-> fp,
             false_negatives |-> fneg,
             precision |-> precision,
             recall |-> recall,
             f05 |-> f05_of(precision, recall),
             findings |-> findings,
             unmatched_findings |-> unmatched_of(findings, matches)]

\* consolidated_with of an expected finding: up to two indices, of the list
\* or beyond its end
Groups == {g \in SUBSET (0 .. MaxExpected) : Cardinality(g) <= 2}

\* one entry of the matches vector: None or an index
MatchEntries == {None} \cup {Some(j) : j \in 0 .. MaxExpected}

\* score_scenario for up to MaxExpected expected findings and up to
\* MaxFindings findings (finding i is named i), one match entry per finding.
InitScore ==
    /\ Idle
    /\ \E n \in 0 .. MaxExpected, k \in 0 .. MaxFindings :
           fn_args \in [expected : [1 .. n -> [consolidated_with : Groups]],
                        matches : [1 .. k -> MatchEntries]]
    /\ fn_out = <<>>

ScoreScenario ==
    /\ fn_out = <<>>
    /\ fn_out' = <<score_scenario([i \in 1 .. Len(fn_args.matches) |-> i],
                                  fn_args.expected, fn_args.matches)>>
    /\ UNCHANGED <<config, matcher, fn_args, main, poller, shutdown_event, active_containers, now, orch,
                   runner, docker>>

SpecScore == InitScore /\ [][ScoreScenario]_vars

\* ------------------------------------- evaluate.py, deterministic matching
\* ranges that overlap only when they share more than an end line
LineRangesOverlapStrict(a, b) == a[1] < b[2] /\ b[1] < a[2]

\* _line_ranges_overlap: a[0] <= b[1] and b[0] <= a[1]
line_ranges_overlap(a, b) == a[1] <= b[2] /\ b[1] <= a[2]

\* lines 174-183: the inner loop from expected index j on; the first j that
\* is not used, has the file of f and a line range overlapping that of f.
RECURSIVE FirstMatch(_, _, _, _)
FirstMatch(f, expected, used_expected, j) ==
    IF j >= Len(expected) THEN None
    ELSE IF /\ j \notin used_expected
            /\ f.file = expected[j + 1].file
            /\ line_ranges_overlap(f.line_range, expected[j + 1].line_range)
         THEN Some(j)
         ELSE FirstMatch(f, expected, used_expected, j + 1)

\* lines 173-183: the outer loop over the findings, in order.
RECURSIVE PreMatchFrom(_, _, _)
PreMatchFrom(findings, expected, used_expected) ==
    IF findings = <<>> THEN <<>>
    ELSE LET m == FirstMatch(Head(findings), expected, used_expected, 0)
         IN <<m>> \o PreMatchFrom(Tail(findings), expected,
                                  IF m = None THEN used_expected
                                  ELSE used_expected \cup {m[1]})

\* what earlier calls claimed stays claimed
UsedKept(earlier) ==
    {j \in 0 .. MaxExpected :
        \E c \in 1 .. Len(earlier) : \E i \in 1 .. Len(earlier[c]) : earlier[c][i] = <<j>>}

\* line 172: used_expected: set[int] = set(), whatever earlier calls returned
UsedAtEntry(earlier) == {}

\* _deterministic_pre_match, lines 167-184
deterministic_pre_match(findings, expected) == PreMatchFrom(findings, expected, {})

\* file and line_range of a finding, actual or expected: two files, and line
\* ranges that are disjoint, share an end line, or contain one another
Located ==
    [file : {"a.py", "b.py"},
     line_range : {<<1, 2>>, <<2, 3>>, <<3, 4>>, <<1, 4>>}]

\* _deterministic_pre_match for up to MaxFindings findings and up to
\* MaxExpected expected findings.
InitMatch ==
    /\ Idle
    /\ \E k \in 0 .. MaxFindings, n \in 0 .. MaxExpected :
           fn_args \in [findings : [1 .. k -> Located], expected : [1 .. n -> Located]]
    /\ fn_out = <<>>

PreMatch ==
    /\ fn_out = <<>>
    /\ fn_out' = <<deterministic_pre_match(fn_args.findings, fn_args.expected)>>
    /\ UNCHANGED <<config, matcher, fn_args, main, poller, shutdown_event, active_containers, now, orch,
                   runner, docker>>

\* _deterministic_pre_match called once more with the same findings and
\* expected list (the call changes neither of them).
PreMatchAgain ==
    /\ Len(fn_out) = 1
    /\ fn_out' = Append(fn_out, PreMatchFrom(fn_args.findings, fn_args.expected,
                                             UsedAtEntry(fn_out)))
    /\ UNCHANGED <<config, matcher, fn_args, main, poller, shutdown_event, active_containers, now, orch,
                   runner, docker>>

SpecMatch == InitMatch /\ [][PreMatch \/ PreMatchAgain]_vars

\* ------------------------------------------ report.py, _trial_aggregate
\* A row is one scenario's statistics over the trials; of its MetricStats
\* the aggregate reads the means only. The means of the counts are given in
\* halves (0, 0.5, 1, ...), the values a mean over two trials takes. The
\* duplicates and duration entries of the dict are sums and means of their
\* own columns and are left out.
RECURSIVE GCD(_, _)
GCD(a, b) == IF b = 0 THEN a ELSE GCD(b, a % b)

\* the same number in lowest terms
FracLowest(a) ==
    LET g == GCD(a[1], a[2]) IN IF g = 0 THEN a ELSE <<a[1] \div g, a[2] \div g>>

RECURSIVE SumMeans(_, _)
SumMeans(rows, field) ==
    IF rows = <<>> THEN Frac(0, 1)
    ELSE FracLowest(FracAdd(Head(rows)[field], SumMeans(Tail(rows), field)))

\* lines 137-138: total_tp / (total_tp + other) if (total_tp + other) > 0 else 1.0
RatioOfTotals(total_tp, other) ==
    IF FracAdd(total_tp, other)[1] > 0
    THEN FracLowest(FracDiv(total_tp, FracAdd(total_tp, other)))
    ELSE Frac(1, 1)

\* the mean over the rows of each row's own ratio
RECURSIVE SumRatios(_, _)
SumRatios(rows, other) ==
    IF rows = <<>> THEN Frac(0, 1)
    ELSE FracLowest(FracAdd(RatioOfTotals(Head(rows).true_positives, Head(rows)[other]),
                            SumRatios(Tail(rows), other)))

MeanOfRatios(rows, other) ==
    FracLowest(FracDiv(SumRatios(rows, other), Frac(Len(rows), 1)))

TrialAggregateOfRatios(rows) ==
    LET precision == MeanOfRatios(rows, "false_positives")
        recall == MeanOfRatios(rows, "false_negatives")
    IN [total_tp |-> SumMeans(rows, "true_positives"),
        total_fp |-> SumMeans(rows, "false_positives"),
        total_fn |-> SumMeans(rows, "false_negatives"),
        precision |-> precision,
        recall |-> recall,
        f05 |-> FracLowest(f05_of(precision, recall))]

\* _trial_aggregate, lines 130-154
trial_aggregate(rows) ==
    LET total_tp == SumMeans(rows, "true_positives")
        total_fp == SumMeans(rows, "false_positives")
        total_fn == SumMeans(rows, "false_negatives")
        precision == RatioOfTotals(total_tp, total_fp)
        recall == RatioOfTotals(total_tp, total_fn)
    IN [total_tp |-> total_tp,
        total_fp |-> total_fp,
        total_fn |-> total_fn,
        precision |-> precision,
        recall |-> recall,
        f05 |-> FracLowest(f05_of(precision, recall))]

HalfMeans == {Frac(h, 2) : h \in 0 .. MaxHalves}

\* print_trial_report and export_trial_report_json call _trial_aggregate
\* with at least one row (lines 238-239, 269-274).
InitAggregate ==
    /\ Idle
    /\ \E n \in 1 .. MaxRows :
           fn_args \in [1 .. n -> [true_positives : HalfMeans,
                                   false_positives : HalfMeans,
                                   false_negatives : HalfMeans]]
    /\ fn_out = <<>>

TrialAggregate ==
    /\ fn_out = <<>>
    /\ fn_out' = <<trial_aggregate(fn_args)>>
    /\ UNCHANGED <<config, matcher, fn_args, main, poller, shutdown_event,
                   active_containers, now, orch, runner, docker>>

SpecAggregate == InitAggregate /\ [][TrialAggregate]_vars

\* ------------------------------------ evaluate.py, parse_result_markdown
\* A result file is described by what the three regular expressions of the
\* parser find in it:
\*   duration_row   None, or <<whole, tenth>>: the numeral of the Duration row,
\*                  which display.py writes with one decimal;
\*   stdout_section whether "## stdout ... ## stderr" encloses a block;
\*   fenced         None, or the text between ```json and ``` in that block.
\* A fenced text is one of
\*   [kind |-> "invalid"]                   not JSON
\*   [kind |-> "array"]                     JSON, but not an object
\*   [kind |-> "object", has_findings, findings]
\* where each entry of findings says whether it has all seven keys.

\* line 34: float(duration_match.group(1)) if duration_match else 0.0
duration_of(row) ==
    IF row = None THEN Frac(0, 1) ELSE Frac(row[1][1] * 10 + row[1][2], 10)

\* lines 36-39: the text the fence is looked for in
stdout_block(text) == IF text.stdout_section THEN text.fenced ELSE None

\* lines 44-57: json.loads and the list comprehension over raw["findings"]
LoadFindings(fenced, duration) ==
    IF fenced.kind = "invalid" THEN [raised |-> "JSONDecodeError"]
    ELSE IF fenced.kind = "array" THEN [raised |-> "AttributeError"]
    ELSE IF ~fenced.has_findings
         THEN [raised |-> "none", findings |-> <<>>, duration |-> duration]
    ELSE IF \E i \in 1 .. Len(fenced.findings) : ~fenced.findings[i].complete
         THEN [raised |-> "KeyError"]
    ELSE [raised |-> "none",
          findings |-> [i \in 1 .. Len(fenced.findings) |-> fenced.findings[i].file],
          duration |-> duration]

\* parse_result_markdown, lines 31-58
parse_result_markdown(text) ==
    LET duration == duration_of(text.duration_row)
        json_match == stdout_block(text)
    IN IF json_match = None
       THEN [raised |-> "none", findings |-> <<>>, duration |-> duration]
       ELSE LoadFindings(json_match[1], duration)

FencedTexts ==
    {[kind |-> "invalid"], [kind |-> "array"]}
    \cup {[kind |-> "object", has_findings |-> h, findings |-> fs] :
             h \in BOOLEAN,
             fs \in UNION {[1 .. k -> [complete : BOOLEAN, file : {"a.py", "b.py"}]] :
                             k \in 0 .. MaxFindings}}

ResultTexts ==
    [duration_row : {None} \cup {Some(<<w, t>>) : w \in 0 .. MaxClock, t \in {0, 5}},
     stdout_section : BOOLEAN,
     fenced : {None} \cup {Some(x) : x \in FencedTexts}]

InitParse ==
    /\ Idle
    /\ fn_args \in ResultTexts
    /\ fn_out = <<>>

ParseResult ==
    /\ fn_out = <<>>
    /\ fn_out' = <<parse_result_markdown(fn_args)>>
    /\ UNCHANGED <<config, matcher, fn_args, main, poller, shutdown_event,
                   active_containers, now, orch, runner, docker>>

SpecParse == InitParse /\ [][ParseResult]_vars

\* -------------------------------------- evaluate.py, match_findings_llm
\* the LLM is asked whenever there are findings
SkipLLMNever(findings, pre) == findings = <<>>

\* line 197: all(m is not None for m in pre_matches) or not findings
SkipLLM(findings, pre) ==
    (\A i \in 1 .. Len(pre) : pre[i] # None) \/ findings = <<>>

\* line 201: the positions of the findings the deterministic stage left
\* unmatched, ascending (positions count from 1 here).
RECURSIVE UnmatchedFrom(_, _)
UnmatchedFrom(pre, i) ==
    IF i > Len(pre) THEN <<>>
    ELSE (IF pre[i] = None THEN <<i>> ELSE <<>>) \o UnmatchedFrom(pre, i + 1)
unmatched_indices(pre) == UnmatchedFrom(pre, 1)

\* lines 204-209: (j, ef) for the expected entries no finding has claimed
RECURSIVE RemainingFrom(_, _, _)
RemainingFrom(expected, used_expected, j) ==
    IF j >= Len(expected) THEN <<>>
    ELSE (IF j \notin used_expected THEN <<<<j, expected[j + 1]>>>> ELSE <<>>)
         \o RemainingFrom(expected, used_expected, j + 1)
remaining_expected(expected, pre) ==
    RemainingFrom(expected, matched_gt_indices(pre), 0)

\* lines 211-231: what the prompt lists: the unmatched findings, and the
\* remaining expected entries with their index (of the fields of a finding,
\* file and line_range are kept here).
PromptOf(findings, expected, pre) ==
    LET ui == unmatched_indices(pre)
        rem == remaining_expected(expected, pre)
    IN [actual |-> [k \in 1 .. Len(ui) |->
                       [file |-> findings[ui[k]].file,
                        line_range |-> findings[ui[k]].line_range]],
        expected |-> [k \in 1 .. Len(rem) |->
                         [index |-> rem[k][1],
                          file |-> rem[k][2].file,
                          line_range |-> rem[k][2].line_range]]]

\* the answer overwrites the vector from its first position on
MergeFromStart(pre, answer) ==
    [i \in 1 .. Len(pre) |-> IF i <= Len(answer) THEN answer[i] ELSE pre[i]]

\* lines 265-266: for idx, llm_match in zip(unmatched_indices, parsed.matches):
\* pre_matches[idx] = llm_match
Merge(pre, answer) ==
    LET ui == unmatched_indices(pre)
    IN [i \in 1 .. Len(pre) |->
           IF \E k \in 1 .. Len(ui) : k <= Len(answer) /\ ui[k] = i
           THEN answer[CHOOSE k \in 1 .. Len(ui) : ui[k] = i]
           ELSE pre[i]]

\* where a finding or an expected finding is, for the matcher with its LLM
\* stage: two files, two line ranges that do not overlap
Placed == [file : {"a.py", "b.py"}, line_range : {<<1, 2>>, <<3, 4>>}]

\* an ExpectedFinding: a place and its keywords
Keyworded(l) == [file |-> l.file, line_range |-> l.line_range, keywords |-> <<"kw">>]

\* match_findings_llm for up to MaxFindings findings and up to MaxExpected
\* expected findings.
InitLLM ==
    /\ Idle
    /\ \E k \in 0 .. MaxFindings, n \in 0 .. MaxExpected :
           \E fs \in [1 .. k -> Placed], es \in [1 .. n -> Placed] :
               fn_args = [findings |-> fs,
                          expected |-> [j \in 1 .. n |-> Keyworded(es[j])]]
    /\ fn_out = <<>>

\* lines 195-198 and 200-245: the deterministic stage; return its result, or
\* build the prompt and call the model.
MatchBegin ==
    /\ pre_matches = <<>>
    /\ LET pre == deterministic_pre_match(fn_args.findings, fn_args.expected)
       IN /\ pre_matches' = <<pre>>
          /\ IF SkipLLM(fn_args.findings, pre)
             THEN /\ fn_out' = <<[raised |-> "none", matches |-> pre]>>
                  /\ UNCHANGED llm_calls
             ELSE /\ llm_calls' =
                         Append(llm_calls, PromptOf(fn_args.findings, fn_args.expected, pre))
                  /\ UNCHANGED fn_out
    /\ UNCHANGED <<config, llm_answer, fn_args, main, poller, shutdown_event,
                   active_containers, now, orch, runner, docker>>

\* lines 260-267: the response is parsed as a MatchResponse (matches:
\* list[int | None] of any length) and merged into pre_matches.
LLMAnswers ==
    /\ pre_matches # <<>>
    /\ fn_out = <<>>
    /\ \E k \in 0 .. MaxFindings : \E answer \in [1 .. k -> MatchEntries] :
           /\ llm_answer' = <<answer>>
           /\ fn_out' = <<[raised |-> "none", matches |-> Merge(pre_matches[1], answer)]>>
    /\ UNCHANGED <<config, llm_calls, pre_matches, fn_args, main, poller, shutdown_event, active_containers,
                   now, orch, runner, docker>>

\* lines 246-263: the call raises, or the content is no valid MatchResponse.
LLMRaises ==
    /\ pre_matches # <<>>
    /\ fn_out = <<>>
    /\ fn_out' = <<[raised |-> "error"]>>
    /\ UNCHANGED <<config, matcher, fn_args, main, poller, shutdown_event, active_containers,
                   now, orch, runner, docker>>

SpecLLM == InitLLM /\ [][MatchBegin \/ LLMAnswers \/ LLMRaises]_vars

\* ------------------------------------------- the capacity planner, alone
\* calculate_max_workers for a host memory of 0 .. MaxMem and a per-container
\* limit of 1 .. MaxLimit, both in units of 256 MiB (a "512m" limit is 2,
\* a host of 4 GiB is 16).
InitPlan ==
    /\ Idle
    /\ fn_args \in [total_mem : 0 .. MaxMem, per_container : 1 .. MaxLimit]
    /\ fn_out = <<>>

PlanWorkers ==
    /\ fn_out = <<>>
    /\ fn_out' = <<calculate_max_workers(fn_args.total_mem, fn_args.per_container)>>
    /\ UNCHANGED <<config, matcher, fn_args, main, poller, shutdown_event, active_containers, now, orch,
                   runner, docker>>

SpecPlan == InitPlan /\ [][PlanWorkers]_vars

\* =================================================================== claims
TotalPairs == skills * Max(1, scenarios)
Finished(r) == pc[r] = "done"
HasResult(r) == ret[r] # <<>>
StatesOf(r) == [i \in 1 .. Len(events[r]) |-> events[r][i].state]
TerminalAt(r) == {i \in 1 .. Len(events[r]) : events[r][i].state \in TerminalStates}
RunOf(label) == CHOOSE r \in Runs : pairs[r] = label

\* C1: every run whose container was created has had remove(force=True)
\* called on that container by the time the run returns or raises, whatever
\* the exit path, and an error of remove never becomes the run's outcome.
C1_RemovedOnEveryExit ==
    \A r \in Runs :
        (Finished(r) /\ r \in created) =>
            /\ r \in removed
            /\ exc[r] # "remove"
            /\ (exc[r] = "none") = HasResult(r)

\* a run in which log collection raised, and whose container was removed
C1_Witness ==
    \E r \in Runs : Finished(r) /\ exc[r] = "collect" /\ r \in removed

\* C2: every run (whose container was created) emits exactly one status with
\* a terminal state, and that status is the last one of the run.
C2_ExactlyOneTerminalStatus ==
    \A r \in Runs :
        (Finished(r) /\ r \in created) =>
            /\ Cardinality(TerminalAt(r)) = 1
            /\ TerminalAt(r) = {Len(events[r])}

\* C3: within one run the statuses come in the order starting, running,
\* terminal state; starting carries 0 and the elapsed seconds never decrease.
C3_StatusOrder ==
    \A r \in Runs :
        /\ \A i, j \in 1 .. Len(events[r]) :
               i < j => events[r][i].duration_seconds <= events[r][j].duration_seconds
        /\ \A i \in 1 .. Len(events[r]) :
               /\ events[r][i].duration_seconds >= 0
               /\ events[r][i].state = "starting" =>
                      i = 1 /\ events[r][i].duration_seconds = 0
               /\ events[r][i].state = "running" =>
                      i = 2 /\ events[r][1].state = "starting"
               /\ events[r][i].state \in {"completed", "failed", "timeout", "oom"} =>
                      i = 3 /\ events[r][2].state = "running"
               /\ events[r][i].state = "interrupted" => i = Len(events[r])

\* a run whose three statuses carry strictly growing elapsed seconds
C3_Witness ==
    \E r \in Runs :
        /\ Len(events[r]) = 3
        /\ events[r][2].duration_seconds > 0
        /\ events[r][3].duration_seconds > events[r][2].duration_seconds

\* C4: never more results than |skills| x max(1, |scenarios|); a batch that
\* returns without any interrupt returns exactly one result per pair.
C4_ResultCount ==
    /\ Len(results) <= TotalPairs
    /\ (opc = "returned" /\ interrupts = 0) =>
           /\ Len(returned[1]) = TotalPairs
           /\ \A s \in 1 .. skills :
                  \A c \in (IF scenarios = 0 THEN {0} ELSE 1 .. scenarios) :
                      Cardinality({i \in 1 .. Len(returned[1]) :
                                       returned[1][i].skill_name = <<s, c>>}) = 1

\* a matrix batch of two skills and one scenario returned in full
C4_Witness ==
    /\ opc = "returned"
    /\ interrupts = 0
    /\ skills = 2
    /\ scenarios = 1
    /\ Len(returned[1]) = 2

ClaimedWorkerCount ==
    IF max_workers # None THEN max_workers[1]
    ELSE Max(1, (total_mem * 8) \div 10)

C6_BoundedByGivenCap == Cardinality(created \ removed) <= ClaimedWorkerCount

\* C6 amended: the bound is the explicit cap when a positive one is given, and
\* the capacity planner's value when no cap or a cap of 0 is given.
AmendedWorkerCount ==
    IF max_workers # None /\ max_workers[1] > 0 THEN max_workers[1]
    ELSE Max(1, (total_mem * 8) \div 10)

C6_BoundedContainers == Cardinality(created \ removed) <= AmendedWorkerCount

\* a cap of 0 with two containers alive at once
C6_Witness == max_workers = Some(0) /\ Cardinality(created \ removed) = 2

C12_TimeoutResult ==
    \A r \in Runs :
        /\ r \in stopped =>
               /\ exc[r] = "none"
               /\ HasResult(r)
               /\ ret[r][1].exit_code = -1
               /\ ret[r][1].error = "timeout"
               /\ ret[r][1].stdout = ""
               /\ ret[r][1].stderr = ""
               /\ ret[r][1].skill_name = Label(r)
               /\ StatesOf(r) = <<"starting", "running", "timeout">>
        /\ (HasResult(r) /\ ret[r][1].error = "timeout") => r \in stopped

\* a run whose wait timed out and whose result was collected by the batch
C12_Witness ==
    \E r \in Runs :
        /\ r \in stopped
        /\ Finished(r)
        /\ \E i \in 1 .. Len(results) : results[i] = ret[r][1]

\* C13: for every exit code and OOMKilled flag the result's error is null when
\* the exit code is 0, oom_killed when the exit code is nonzero and the flag is
\* true, nonzero_exit:<code> otherwise (so 137 with the flag false is
\* nonzero_exit:137), and the result keeps the exit code.
C13_Classification ==
    fn_out # <<>> =>
        LET res == fn_out[1].result
            code == fn_args.exit_code
        IN /\ res.exit_code = code
           /\ code = 0 => res.error = "null"
           /\ (code # 0 /\ fn_args.oom_killed) => res.error = "oom_killed"
           /\ (code # 0 /\ ~fn_args.oom_killed) =>
                  res.error = "nonzero_exit:" \o ToString(code)
           /\ (code = 137 /\ ~fn_args.oom_killed) => res.error = "nonzero_exit:137"

\* exit code 137 without the OOMKilled flag, classified
C13_Witness ==
    /\ fn_out # <<>>
    /\ fn_args.exit_code = 137
    /\ ~fn_args.oom_killed
    /\ fn_out[1].result.error = "nonzero_exit:137"

\* C14: the state of a run's terminal status agrees with the error of its
\* result: completed for null, timeout for timeout, oom for oom_killed and
\* failed for nonzero_exit:<N>.
C14_StatusAgreesWithError ==
    \A r \in Runs :
        HasResult(r) =>
            LET error == ret[r][1].error
                state == events[r][Len(events[r])].state
            IN /\ error = "null" => state = "completed"
               /\ error = "timeout" => state = "timeout"
               /\ error = "oom_killed" => state = "oom"
               /\ error \notin {"null", "timeout", "oom_killed", "interrupted"} =>
                      state = "failed"

\* C15: a run that ends by timeout, OOM kill, nonzero exit or interrupt ends
\* with a result value and no exception, and run_evaluations raises only when
\* a run itself raised: never because of such a per-run error.
C15_PerRunErrorsReturned ==
    /\ \A r \in Runs :
           (Finished(r) /\ \E i \in 1 .. Len(events[r]) :
                               events[r][i].state \in TerminalStates) =>
               (HasResult(r) /\ exc[r] = "none")
    /\ \A r \in Runs : HasResult(r) => exc[r] = "none"
    /\ opc = "raised" => \E r \in collected : exc[r] # "none"

\* a batch that returned a timeout result and a nonzero-exit result
C15_Witness ==
    /\ opc = "returned"
    /\ \E i, j \in 1 .. Len(returned[1]) :
           /\ returned[1][i].error = "timeout"
           /\ returned[1][j].error \in {"oom_killed", "nonzero_exit:137"}

\* C16: when start, wait or the collection after it raises, the run removes
\* its container and lets that same exception propagate (no result, no other
\* exception in its place), and create is called at most once per pair.
C16_RaiseAfterCleanup ==
    /\ [](\A r \in Runs :
              /\ create_calls[r] <= 1
              /\ (Finished(r) /\ exc[r] # "none" /\ r \in created) =>
                     /\ exc[r] \in {"start", "wait", "collect"}
                     /\ r \in removed
                     /\ ~HasResult(r))
    /\ [][\A r \in Runs : exc[r] # "none" => exc'[r] = exc[r]]_vars

\* a run whose wait raised: container removed, exception re-raised by the
\* batch, create called once
C16_Witness ==
    /\ opc = "raised"
    /\ \E r \in Runs :
           /\ exc[r] = "wait"
           /\ r \in removed
           /\ r \in collected
           /\ create_calls[r] = 1

C18_ExitCode ==
    (process_exit # <<>> /\ trial > trials) =>
        /\ (process_exit[1] = 0) =
               (\A i \in 1 .. Len(all_results) : all_results[i].error = "null")
        /\ (\E r \in Runs : HasResult(r) /\ ret[r][1].error # "null") =>
               process_exit[1] = 1

PeakValue(n) == IF memory_peak_cache[n] = <<>> THEN 0 ELSE memory_peak_cache[n][1]

\* C19: no peak-cache entry ever decreases or disappears; storing a sample
\* with limit > 0 sets the entry of its name to the maximum of the previous
\* value (0 if absent) and the sampled usage and leaves the other entries
\* alone; a sample with limit = 0 changes neither cache; the caches change at
\* no other step; and a sample is read only for an item whose status is
\* starting or running.
C19_PeakNeverDecreases ==
    [][/\ \A n \in Names :
              /\ memory_peak_cache[n] # <<>> =>
                     /\ memory_peak_cache'[n] # <<>>
                     /\ memory_peak_cache'[n][1] >= memory_peak_cache[n][1]
       /\ (ppc = "store" /\ ppc' # "store") =>
              LET s == sample[1]
              IN IF s.limit > 0
                 THEN /\ memory_peak_cache'[s.name] =
                             <<Max(PeakValue(s.name), s.usage)>>
                      /\ \A n \in Names \ {s.name} :
                             /\ memory_peak_cache'[n] = memory_peak_cache[n]
                             /\ memory_cache'[n] = memory_cache[n]
                 ELSE /\ memory_peak_cache' = memory_peak_cache
                      /\ memory_cache' = memory_cache
       /\ (memory_peak_cache' # memory_peak_cache \/ memory_cache' # memory_cache) =>
              ppc = "store"
       /\ (sample = <<>> /\ sample' # <<>>) =>
              /\ Head(todo)[1] = sample'[1].name
              /\ Head(todo)[2] \in {"starting", "running"}
      ]_vars

\* a sample of 1 MiB about to be stored for a container whose peak is 2 MiB
C19_Witness ==
    /\ ppc = "store"
    /\ sample[1].limit > 0
    /\ sample[1].usage = MIB
    /\ memory_peak_cache[sample[1].name] = <<2 * MIB>>

\* C20: a failed lookup or stats read for an item leaves both memory caches
\* and the statuses map as they were, and the poller goes on with the next
\* item of the cycle; the loop ends only when the stop signal is set.
C20_PollErrorsSwallowed ==
    /\ [](ppc = "exited" => stop_event)
    /\ [][(/\ ppc = "scan"
            /\ todo' # todo
            /\ Head(todo)[2] \in {"starting", "running"}
            /\ sample' = <<>>) =>
               /\ ppc' = "scan"
               /\ todo' = Tail(todo)
               /\ memory_cache' = memory_cache
               /\ memory_peak_cache' = memory_peak_cache
               /\ statuses' = statuses
               /\ stop_event' = stop_event
               /\ UNCHANGED <<orch, runner>>
      ]_vars

\* after a failed stats poll the poller is storing a sample
C20_Witness ==
    /\ poll_failed
    /\ ppc = "store"
    /\ sample[1].limit > 0

\* C21: once stats_thread.join has returned, which is when the run command
\* moves on to the next trial or to the exit, the poller of the trial has left
\* its loop.
C21_PollerGoneAfterJoin ==
    stats_join \in {"joined", "timed_out"} => ppc = "exited"

\* C22: a key of the statuses map is written only by an on_status call of the
\* run whose container has that name, and that call writes no other key; a
\* step that is no on_status call (every step of _stats_loop is one) leaves
\* the statuses map as it is; and the memory caches change only under keys
\* that the statuses map has.
C22_SingleWriterPerKey ==
    [][/\ \A r \in Runs :
              events'[r] # events[r] =>
                  statuses' = [statuses EXCEPT
                                  ![r] = events'[r][Len(events'[r])].state]
       /\ events' = events => statuses' = statuses
       /\ (ppc' # ppc \/ todo' # todo) => statuses' = statuses
       /\ \A n \in ContainerNames :
              (memory_cache'[n] # memory_cache[n]
                  \/ memory_peak_cache'[n] # memory_peak_cache[n]) =>
                  statuses[n] # "absent"]_vars

\* both workers have written their key and the poller has stored a sample
\* under each of the two keys
C22_Witness ==
    /\ \A n \in {1, 2} :
           /\ statuses[n] \in TerminalStates
           /\ memory_cache[n] # ""
           /\ memory_peak_cache[n] # <<>>
    /\ pc[1] = "done"
    /\ pc[2] = "done"

\* C23: the result a run builds carries, as peak_memory_bytes, the value the
\* peak cache holds under the name of the run's container at that moment, and
\* 0 when the cache holds nothing under that name.
C23_PeakFromCache ==
    [][\A r \in Runs :
           (ret[r] = <<>> /\ ret'[r] # <<>>) =>
               ret'[r][1].peak_memory_bytes = peak_read(r)]_vars

\* C24: one run is submitted for every pair and none besides; with scenarios
\* the pairs are the Cartesian product, all scenarios of the first skill in
\* their order before those of the second; without scenarios there is one
\* pair per skill, in the order of the skills, with no scenario (0).
C24_OneRunPerPair ==
    fn_out # <<>> =>
        LET ps == fn_out[1].pairs
            sub == fn_out[1].submitted
            ns == fn_args.skills
            nc == fn_args.scenarios
        IN /\ Len(sub) = Len(ps)
           /\ \A i \in 1 .. Len(ps) :
                  sub[i].skill = ps[i][1] /\ sub[i].scenario = ps[i][2]
           /\ IF nc > 0
              THEN /\ Len(ps) = ns * nc
                   /\ \A sk \in 1 .. ns, sc \in 1 .. nc :
                          ps[(sk - 1) * nc + sc] = <<sk, sc>>
              ELSE /\ Len(ps) = ns
                   /\ \A sk \in 1 .. ns : ps[sk] = <<sk, 0>>

\* two skills and three scenarios: six runs, the second of them skill 1 with
\* scenario 2
C24_Witness ==
    /\ fn_out # <<>>
    /\ fn_args.skills = 2
    /\ fn_args.scenarios = 3
    /\ Len(fn_out[1].submitted) = 6
    /\ fn_out[1].submitted[2] = [skill |-> 1, scenario |-> 2]

\* C25: the planner returns max(1, q), q the integer part of 0.8 x total / per
\* (10 * per * q <= 8 * total < 10 * per * (q + 1)); the count is at least 1;
\* 4 GiB with a 512m limit gives 6 and 256 MiB with a 512m limit gives 1.
C25_PlannerFloor ==
    fn_out # <<>> =>
        LET w == fn_out[1]
            total == fn_args.total_mem
            per == fn_args.per_container
        IN /\ w >= 1
           /\ \E q \in 0 .. 8 * total :
                  /\ 10 * per * q <= 8 * total
                  /\ 8 * total < 10 * per * (q + 1)
                  /\ w = (IF q >= 1 THEN q ELSE 1)
           /\ (total = 16 /\ per = 2) => w = 6
           /\ (total = 1 /\ per = 2) => w = 1

\* the planner has answered for 256 MiB of host memory and a 512m limit, where
\* the quotient is below 1
C25_Witness ==
    /\ fn_out = <<1>>
    /\ fn_args.total_mem = 1
    /\ fn_args.per_container = 2

Scored == fn_out # <<>> /\ fn_out[1].raised = "none"

\* C26: TP is the number of indices that are matched or named by the
\* consolidated_with of a matched entry; FP is the number of None entries of
\* matches; unmatched_findings are the findings at the None positions, in
\* order, so there are FP of them.
C26_Counts ==
    Scored =>
        LET r == fn_out[1]
            m == fn_args.matches
            e == fn_args.expected
            hit == {j \in -MaxExpected .. MaxExpected : \E i \in 1 .. Len(m) : m[i] = <<j>>}
            credit == {c \in 0 .. MaxExpected :
                          \E j \in hit : c \in ItemAt(e, j).consolidated_with}
            nulls == {i \in 1 .. Len(m) : m[i] = <<>>}
        IN /\ r.true_positives = Cardinality(hit \cup credit)
           /\ r.false_positives = Cardinality(nulls)
           /\ Len(r.unmatched_findings) = r.false_positives
           /\ {r.unmatched_findings[i] : i \in 1 .. Len(r.unmatched_findings)}
                  = {r.findings[i] : i \in nulls}
           /\ \A i, j \in 1 .. Len(r.unmatched_findings) :
                  i < j => r.unmatched_findings[i] < r.unmatched_findings[j]

\* one finding matched to entry 0, which is consolidated with entry 1, and one
\* finding unmatched: TP = 2, FP = 1
C26_Witness ==
    /\ Scored
    /\ Len(fn_args.expected) = 2
    /\ fn_args.expected[1].consolidated_with = {1}
    /\ fn_args.matches = <<Some(0), None>>
    /\ fn_out[1].true_positives = 2
    /\ fn_out[1].unmatched_findings = <<2>>

\* C27: false_negatives of a result is never negative.
C27_FalseNegativesNotNegative ==
    Scored => fn_out[1].false_negatives >= 0

\* C28: precision and recall of a result lie in [0, 1], and TP + FN is the
\* number of expected findings.
C28_RatiosInUnitInterval ==
    Scored =>
        LET r == fn_out[1]
        IN /\ FracLeq(Frac(0, 1), r.precision) /\ FracLeq(r.precision, Frac(1, 1))
           /\ FracLeq(Frac(0, 1), r.recall) /\ FracLeq(r.recall, Frac(1, 1))
           /\ r.true_positives + r.false_negatives = Len(fn_args.expected)

\* C29: precision is TP / (TP + FP), and 1 when TP + FP = 0; recall is
\* TP / (TP + FN), and 1 when TP + FN = 0; F0.5 is 1.25 P R / (0.25 P + R),
\* and 0 when P + R = 0. TP = 1, FP = 1, FN = 0 give 1/2, 1 and 5/9; no
\* expected finding and one unmatched finding give precision 0 and F0.5 0.
C29_Ratios ==
    Scored =>
        LET r == fn_out[1]
            tp == r.true_positives
            fp == r.false_positives
            fneg == r.false_negatives
            P == r.precision
            R == r.recall
            F == r.f05
        IN /\ P[2] > 0 /\ R[2] > 0 /\ F[2] > 0
           /\ IF tp + fp = 0 THEN P[1] = P[2] ELSE P[1] * (tp + fp) = tp * P[2]
           /\ IF tp + fneg = 0 THEN R[1] = R[2] ELSE R[1] * (tp + fneg) = tp * R[2]
           /\ IF P[1] * R[2] + R[1] * P[2] = 0
              THEN F[1] = 0
              ELSE F[1] * (P[1] * R[2] + 4 * R[1] * P[2]) = 5 * P[1] * R[1] * F[2]
           /\ (tp = 1 /\ fp = 1 /\ fneg = 0) =>
                  /\ 2 * P[1] = P[2]
                  /\ R[1] = R[2]
                  /\ 9 * F[1] = 5 * F[2]
           /\ (fn_args.expected = <<>> /\ fn_args.matches = <<None>>) =>
                  P[1] = 0 /\ F[1] = 0

\* the scorer has returned TP = 1, FP = 1, FN = 0 with F0.5 = 5/9
C29_Witness ==
    /\ Scored
    /\ fn_out[1].true_positives = 1
    /\ fn_out[1].false_positives = 1
    /\ fn_out[1].false_negatives = 0
    /\ 9 * fn_out[1].f05[1] = 5 * fn_out[1].f05[2]

\* C30: finding i gets the lowest expected index that no earlier finding got
\* and whose entry has the same file and a line range overlapping inclusively
\* (a.start <= b.end and b.start <= a.end), or None when there is none; no
\* expected index is given to two findings.
C30_FirstFreeMatch ==
    fn_out # <<>> =>
        LET m == fn_out[1]
            f == fn_args.findings
            e == fn_args.expected
            Claimed(i) == {j \in 0 .. Len(e) - 1 : \E k \in 1 .. i - 1 : m[k] = <<j>>}
            Fits(i) == {j \in 0 .. Len(e) - 1 :
                           /\ j \notin Claimed(i)
                           /\ f[i].file = e[j + 1].file
                           /\ f[i].line_range[1] <= e[j + 1].line_range[2]
                           /\ e[j + 1].line_range[1] <= f[i].line_range[2]}
        IN /\ Len(m) = Len(f)
           /\ \A i \in 1 .. Len(f) :
                  IF Fits(i) = {} THEN m[i] = <<>>
                  ELSE \E j \in Fits(i) : m[i] = <<j>> /\ \A h \in Fits(i) : j <= h
           /\ \A i, k \in 1 .. Len(m) : (i # k /\ m[i] # <<>>) => m[i] # m[k]

\* two findings at the same place as expected entry 0, and entry 1 sharing
\* only an end line with them: the first gets 0, the second gets 1
C30_Witness ==
    /\ fn_out = <<<<Some(0), Some(1)>>>>
    /\ fn_args.findings[1] = fn_args.findings[2]
    /\ fn_args.findings[1] = fn_args.expected[1]
    /\ fn_args.expected[1].line_range = <<1, 2>>
    /\ fn_args.expected[2].line_range = <<2, 3>>

C32_NoCallWhenAllMatched ==
    LET det == deterministic_pre_match(fn_args.findings, fn_args.expected)
    IN (pre_matches # <<>>
           /\ (fn_args.findings = <<>> \/ \A i \in 1 .. Len(det) : det[i] # <<>>)) =>
           /\ llm_calls = <<>>
           /\ fn_out = <<[raised |-> "none", matches |-> det]>>

\* two findings, both matched by the deterministic stage, returned without a
\* call
C32_Witness ==
    /\ fn_out = <<[raised |-> "none", matches |-> <<Some(0), Some(1)>>]>>
    /\ llm_calls = <<>>
    /\ Len(fn_args.findings) = 2

\* the findings the deterministic stage left unmatched (positions), and the
\* expected indices it left unclaimed
LeftUnmatched ==
    LET det == deterministic_pre_match(fn_args.findings, fn_args.expected)
    IN {i \in 1 .. Len(det) : det[i] = <<>>}
LeftUnclaimed ==
    LET det == deterministic_pre_match(fn_args.findings, fn_args.expected)
    IN {j \in 0 .. Len(fn_args.expected) - 1 : \A i \in 1 .. Len(det) : det[i] # <<j>>}

\* the prompt lists the unmatched findings only, in order, and the unclaimed
\* expected entries only, in order, each with its own index and without its
\* keywords
PromptListsWhatIsLeft(p) ==
    /\ Len(p.actual) = Cardinality(LeftUnmatched)
    /\ \A k \in 1 .. Len(p.actual) :
           \E i \in LeftUnmatched :
               /\ Cardinality({h \in LeftUnmatched : h < i}) = k - 1
               /\ p.actual[k].file = fn_args.findings[i].file
               /\ p.actual[k].line_range = fn_args.findings[i].line_range
    /\ Len(p.expected) = Cardinality(LeftUnclaimed)
    /\ \A k \in 1 .. Len(p.expected) :
           /\ p.expected[k].index \in LeftUnclaimed
           /\ Cardinality({h \in LeftUnclaimed : h < p.expected[k].index}) = k - 1
           /\ p.expected[k].file = fn_args.expected[p.expected[k].index + 1].file
           /\ p.expected[k].line_range =
                  fn_args.expected[p.expected[k].index + 1].line_range
           /\ "keywords" \notin DOMAIN p.expected[k]

\* C33: a prompt is sent only if some finding is still unmatched and some
\* expected entry is still unclaimed after the deterministic stage, and it
\* lists only those findings and those entries, each entry with its original
\* index and without keywords.
C33_CallOnlyWithBothLeft ==
    \A c \in 1 .. Len(llm_calls) :
        /\ LeftUnmatched # {}
        /\ LeftUnclaimed # {}
        /\ PromptListsWhatIsLeft(llm_calls[c])

\* C34: in the merged vector every position the deterministic stage matched
\* keeps its match, the k-th unmatched position holds the k-th entry of the
\* LLM's answer (None when the answer has no k-th entry), and the vector has
\* one entry per finding whatever the length of the answer.
C34_MergeByPosition ==
    (llm_answer # <<>> /\ fn_out # <<>>) =>
        LET m == fn_out[1].matches
            a == llm_answer[1]
            det == deterministic_pre_match(fn_args.findings, fn_args.expected)
        IN /\ Len(m) = Len(fn_args.findings)
           /\ \A i \in 1 .. Len(det) :
                  IF det[i] # <<>> THEN m[i] = det[i]
                  ELSE LET k == Cardinality({h \in LeftUnmatched : h < i}) + 1
                       IN m[i] = (IF k <= Len(a) THEN a[k] ELSE <<>>)

\* the second finding was matched deterministically, the first was not: an
\* answer of two entries puts its first entry at position 1 and its second
\* nowhere
C34_Witness ==
    /\ pre_matches = <<<<None, Some(0)>>>>
    /\ llm_answer = <<<<Some(1), Some(1)>>>>
    /\ fn_out = <<[raised |-> "none", matches |-> <<Some(1), Some(0)>>]>>

\* C35: when the stdout block has no json fence, or the fenced text is not
\* valid JSON, the parser returns no findings and the parsed duration, and
\* does not raise.
C35_EmptyOnNoOrBadJson ==
    (fn_out # <<>>
       /\ (stdout_block(fn_args) = None \/ stdout_block(fn_args)[1].kind = "invalid")) =>
        fn_out[1] = [raised |-> "none", findings |-> <<>>,
                     duration |-> duration_of(fn_args.duration_row)]

\* C35, the half the code keeps: without a json fence in the stdout block the
\* parser returns no findings and the parsed duration.
C35_EmptyOnNoFence ==
    (fn_out # <<>> /\ stdout_block(fn_args) = None) =>
        fn_out[1] = [raised |-> "none", findings |-> <<>>,
                     duration |-> duration_of(fn_args.duration_row)]

\* the sum of a column of means, counted in halves
RECURSIVE HalvesOf(_, _)
HalvesOf(rows, field) ==
    IF rows = <<>> THEN 0 ELSE Head(rows)[field][1] + HalvesOf(Tail(rows), field)

\* C36: the aggregate's totals are the sums of the rows' mean TP, FP and FN,
\* and its precision, recall and F0.5 are the scorer's formulas, with the
\* scorer's values for a zero denominator, applied to those sums.
C36_AggregateFromSums ==
    fn_out # <<>> =>
        LET tp == HalvesOf(fn_args, "true_positives")
            fp == HalvesOf(fn_args, "false_positives")
            fneg == HalvesOf(fn_args, "false_negatives")
            agg == fn_out[1]
        IN /\ FracEq(agg.total_tp, Frac(tp, 2))
           /\ FracEq(agg.total_fp, Frac(fp, 2))
           /\ FracEq(agg.total_fn, Frac(fneg, 2))
           /\ FracEq(agg.precision, precision_of(tp, fp))
           /\ FracEq(agg.recall, recall_of(tp, fneg))
           /\ FracEq(agg.f05, f05_of(precision_of(tp, fp), recall_of(tp, fneg)))

\* two scenarios whose own precisions are 1 and 1/3, mean 2/3: the aggregate
\* reports 3/5, the precision of the summed counts
C36_Witness ==
    /\ fn_out # <<>>
    /\ Len(fn_args) = 2
    /\ fn_args[1].true_positives = Frac(2, 2) /\ fn_args[1].false_positives = Frac(0, 2)
    /\ fn_args[2].true_positives = Frac(1, 2) /\ fn_args[2].false_positives = Frac(2, 2)
    /\ FracEq(fn_out[1].precision, Frac(3, 5))
    /\ ~FracEq(fn_out[1].precision, MeanOfRatios(fn_args, "false_positives"))

\* C37: once the orchestrator has returned, every container the batch
\* created has been removed, and no run is between create and remove.
C37_AllRemovedAtReturn ==
    opc = "returned" =>
        /\ created \subseteq removed
        /\ \A r \in Runs : pc[r] \notin {"created", "start", "wait", "finally"}

\* C37 for a batch that was not interrupted: the pool's exit waits for every
\* submitted run, so at the return every created container has been removed.
C37_AllRemovedAtNormalReturn ==
    (opc = "returned" /\ interrupts = 0) =>
        /\ created \subseteq removed
        /\ \A r \in Runs : pc[r] = "done"

\* a step that calls on_result calls it once, for the result it has just
\* accumulated, and is no step of a worker; what is returned is the sequence
\* of the calls
SerialStep ==
    /\ on_result_calls' # on_result_calls =>
           /\ runner' = runner
           /\ docker' = docker
           /\ Len(results') = Len(results) + 1
           /\ on_result_calls' = Append(on_result_calls, results'[Len(results')])
    /\ (on_result_given /\ returned' # <<>>) => returned'[1] = on_result_calls'

\* C38: on_result is called by the collecting loop only, one call per step of
\* that loop and for the result the step has just accumulated, while no
\* worker takes a step; and the tuple the orchestrator returns lists the
\* results in the order of the on_result calls.
C38_CallsSerialAndInOrder == [][SerialStep]_vars

\* two workers, and the second pair finished first: on_result was called for
\* it first and the returned tuple lists it first
C38_Witness ==
    /\ on_result_given
    /\ workers = 2
    /\ returned # <<>>
    /\ Len(returned[1]) = 2
    /\ returned[1] = on_result_calls
    /\ RunOf(on_result_calls[1].skill_name) = 2

\* the entries of m are indices into expected, no index twice, and scoring m
\* for expected findings without consolidation succeeds with TP + FP = |m|
ValidForScoring(m, expected) ==
    LET plain == [j \in 1 .. Len(expected) |-> [consolidated_with |-> {}]]
        s == score_scenario([i \in 1 .. Len(m) |-> i], plain, m)
    IN /\ \A i \in 1 .. Len(m) : m[i] # None => m[i][1] \in 0 .. Len(expected) - 1
       /\ \A i, k \in 1 .. Len(m) : (m[i] # None /\ m[i] = m[k]) => i = k
       /\ s.raised = "none"
       /\ s.true_positives + s.false_positives = Len(m)

\* C39: every non-null entry of the vector the matcher returns is a valid
\* index into the expected findings and no index is at two positions, so
\* scoring does not fail and TP + FP = |findings| without consolidation.
C39_ReturnedMatchesValid ==
    (fn_out # <<>> /\ fn_out[1].raised = "none") =>
        /\ Len(fn_out[1].matches) = Len(fn_args.findings)
        /\ ValidForScoring(fn_out[1].matches, fn_args.expected)

\* C39 for the deterministic stage alone: what the matcher returns without
\* asking the model is valid for scoring.
C39_DeterministicMatchesValid ==
    (fn_out # <<>> /\ fn_out[1].raised = "none" /\ llm_answer = <<>>) =>
        /\ Len(fn_out[1].matches) = Len(fn_args.findings)
        /\ ValidForScoring(fn_out[1].matches, fn_args.expected)

C40_ProgressCountsNonInterrupted ==
    progress = Cardinality({r \in Runs : \E i \in 1 .. Len(events[r]) :
                                             events[r][i].state \in _TERMINAL})
====
